---- MODULE Spec2Model ----
(***************************************************************************)
(* Model of debugAPK.go: one run of main() (environment probing, the        *)
(* workspace, the six pipeline stages, the exit paths) and the pure text    *)
(* functions it uses (the manifest patch, the output path derivation, the   *)
(* version parsing).  Texts are sequences of one-character strings.         *)
(***************************************************************************)
EXTENDS Integers, Sequences, FiniteSets, TLC

VARIABLES run, twin, input, output

vars == <<run, twin, input, output>>

(***************************************************************************)
(* Bounds                                                                   *)
(***************************************************************************)
MaxFrags == 3

MaxPathLen == 3

(***************************************************************************)
(* Text constants of the source                                             *)
(***************************************************************************)
DebuggablePattern == <<"a", "n", "d", "r", "o", "i", "d", ":", "d", "e", "b", "u", "g", "g", "a", "b", "l", "e", "=", "\"", "[", "^", "\"", "]", "*", "\"", " ", "*">>

ApplicationTag == <<"<", "a", "p", "p", "l", "i", "c", "a", "t", "i", "o", "n", " ">>

ApplicationDebuggable == <<"<", "a", "p", "p", "l", "i", "c", "a", "t", "i", "o", "n", " ", "a", "n", "d", "r", "o", "i", "d", ":", "d", "e", "b", "u", "g", "g", "a", "b", "l", "e", "=", "\"", "t", "r", "u", "e", "\"", " ">>

DebugSuffix == <<".", "d", "e", "b", "u", "g", ".", "a", "p", "k">>

requiredVersion == <<"2", ".", "5", ".", "0">>

DebugWord == <<"d", "e", "b", "u", "g">>

apktoolJar == <<"a", "p", "k", "t", "o", "o", "l", "_", "2", ".", "5", ".", "0", ".", "j", "a", "r">>

(***************************************************************************)
(* strings / path/filepath                                                  *)
(***************************************************************************)
HasPrefixAt(s, i, p) ==
    /\ i + Len(p) - 1 <= Len(s)
    /\ SubSeq(s, i, i + Len(p) - 1) = p

HasSuffix(s, suf) ==
    /\ Len(suf) <= Len(s)
    /\ SubSeq(s, Len(s) - Len(suf) + 1, Len(s)) = suf

TrimSuffix(s, suf) ==
    IF HasSuffix(s, suf) THEN SubSeq(s, 1, Len(s) - Len(suf)) ELSE s

RECURSIVE ReplaceFrom(_, _, _, _)
ReplaceFrom(s, i, old, new) ==
    IF i > Len(s) THEN <<>>
    ELSE IF HasPrefixAt(s, i, old)
         THEN new \o ReplaceFrom(s, i + Len(old), old, new)
         ELSE <<s[i]>> \o ReplaceFrom(s, i + 1, old, new)

\* strings.ReplaceAll with a non-empty old: literal, leftmost, non-overlapping
ReplaceAll(s, old, new) == ReplaceFrom(s, 1, old, new)

RECURSIVE ExtFrom(_, _)
ExtFrom(path, i) ==
    IF i < 1 THEN <<>>
    ELSE IF path[i] = "/" THEN <<>>
    ELSE IF path[i] = "." THEN SubSeq(path, i, Len(path))
    ELSE ExtFrom(path, i - 1)

\* filepath.Ext: the suffix from the last dot of the last path element
Ext(path) == ExtFrom(path, Len(path))

Join(dir, name) == dir \o <<"/">> \o name

IsSpace(c) == c \in {" ", "\t", "\n", "\r"}

RECURSIVE LineEnd(_, _)
LineEnd(s, i) ==
    IF i > Len(s) THEN i
    ELSE IF s[i] = "\n" THEN i
    ELSE LineEnd(s, i + 1)

DropCR(line) ==
    IF Len(line) > 0 /\ line[Len(line)] = "\r"
    THEN SubSeq(line, 1, Len(line) - 1) ELSE line

\* bufio.Scanner: one Scan() with ScanLines, then Text()
FirstLine(s) == DropCR(SubSeq(s, 1, LineEnd(s, 1) - 1))

RECURSIVE FieldsFrom(_, _, _)
FieldsFrom(s, i, cur) ==
    IF i > Len(s) THEN (IF cur = <<>> THEN <<>> ELSE <<cur>>)
    ELSE IF IsSpace(s[i])
         THEN (IF cur = <<>> THEN <<>> ELSE <<cur>>) \o FieldsFrom(s, i + 1, <<>>)
         ELSE FieldsFrom(s, i + 1, Append(cur, s[i]))

\* strings.Fields
Fields(s) == FieldsFrom(s, 1, <<>>)

(***************************************************************************)
(* addDebuggableFlag, on the file's text                                    *)
(***************************************************************************)
PatchContent(content) ==
    ReplaceAll(ReplaceAll(content, DebuggablePattern, <<>>),
               ApplicationTag, ApplicationDebuggable)

(***************************************************************************)
(* main, line 70: the output package path                                   *)
(***************************************************************************)
DebugAPKPath_KeepsExt(apk) ==
    TrimSuffix(apk, Ext(apk)) \o <<".", "d", "e", "b", "u", "g">> \o Ext(apk)

DebugAPKPath(apk) == TrimSuffix(apk, Ext(apk)) \o DebugSuffix

(***************************************************************************)
(* Inputs of a run: the command line, the files present before the run,    *)
(* the tools on the search path, the manifest packed in the input package  *)
(***************************************************************************)
SamplePaths == {<<"a", ".", "a", "p", "k">>, <<"b", ".", "z", "i", "p">>, <<"d", ".", "x", "/", "c">>}

SampleManifests == {<<"<", "a", "p", "p", "l", "i", "c", "a", "t", "i", "o", "n", " ", "a", "=", "\"", "b", "\"", " ", ">">>, <<"<", "a", "p", "p", "l", "i", "c", "a", "t", "i", "o", "n", " ", "a", "n", "d", "r", "o", "i", "d", ":", "d", "e", "b", "u", "g", "g", "a", "b", "l", "e", "=", "\"", "f", "a", "l", "s", "e", "\"", " ", ">">>}

VersionOutputs == {<<"2", ".", "5", ".", "0", "\n">>, <<"2", ".", "4", ".", "1", "\n">>, <<>>, <<"\n", "2", ".", "5", ".", "0", "\n">>, <<" ", "2", ".", "5", ".", "0", " ", "x", "\n">>, <<"2", ".", "5", ".", "0", "\r", "\n">>}

ArgVectors == {<<>>} \cup {<<p>> : p \in SamplePaths} \cup {<<p, DebugWord>> : p \in SamplePaths}

AuxTools == {"keytool", "jarsigner"}

\* what one external call or file operation does this time
Outcomes == [ok : BOOLEAN, side : BOOLEAN, part : BOOLEAN, text : VersionOutputs]

tmpDirName == <<"/tmp/apkdebug123">>

StageOrder == <<"Unpacking", "PatchingManifest", "Repacking", "GeneratingCredentials", "Signing", "Verifying">>

(***************************************************************************)
(* The file system: a function from the paths that exist to their data      *)
(***************************************************************************)
WriteFile(fs, path, data) ==
    [p \in DOMAIN fs \cup {path} |-> IF p = path THEN data ELSE fs[p]]

Under(p, dir) == p = dir \/ HasPrefixAt(p, 1, dir \o <<"/">>)

RemoveAll(fs, dir) ==
    [p \in {q \in DOMAIN fs : ~Under(q, dir)} |-> fs[p]]

Exists(fs, path) == path \in DOMAIN fs

(***************************************************************************)
(* The state of one run                                                     *)
(***************************************************************************)
InitRun(argv, files, tools, manifest) ==
    [pc |-> "main", waiting |-> FALSE,
     argv |-> argv, apk |-> <<>>, debugFlag |-> FALSE,
     apktool |-> <<"apktool">>, apktoolArgs |-> <<>>,
     installedVersion |-> <<>>, tmpDir |-> <<>>, debugAPK |-> <<>>,
     deferred |-> <<>>,
     fs |-> [p \in files |-> <<"old">>], fs0 |-> files,
     tools |-> tools, pkgManifest |-> manifest,
     log |-> <<>>, stages |-> <<>>, out |-> <<>>, writes |-> <<>>,
     exit |-> -1, outcome |-> "running"]

InitFiles(argv) ==
    IF argv = <<>> THEN {{}}
    ELSE SUBSET {argv[1], DebugAPKPath(argv[1]), apktoolJar}

InitRuns ==
    UNION {{InitRun(argv, files, tools, m) :
                files \in InitFiles(argv), tools \in SUBSET AuxTools,
                m \in SampleManifests} : argv \in ArgVectors}

NoRun == [pc |-> "none"]

(***************************************************************************)
(* Printing and the ways main ends                                          *)
(***************************************************************************)
Say(r, kind, text) == [r EXCEPT !.out = Append(@, [kind |-> kind, text |-> text])]

RECURSIVE RunDeferred(_, _)
RunDeferred(fs, dirs) ==
    IF dirs = <<>> THEN fs
    ELSE RunDeferred(RemoveAll(fs, dirs[Len(dirs)]), SubSeq(dirs, 1, Len(dirs) - 1))

\* main returns: the deferred calls run, the process exits with status 0
Return(r, outcome) ==
    [r EXCEPT !.pc = "exited", !.waiting = FALSE, !.exit = 0, !.outcome = outcome,
              !.fs = RunDeferred(r.fs, r.deferred), !.deferred = <<>>]

\* log.Fatal: prints, then os.Exit(1); deferred calls do not run
Fatal(r, text, outcome) ==
    [Say(r, "fatal", text) EXCEPT !.pc = "exited", !.waiting = FALSE, !.exit = 1,
                                  !.outcome = outcome]

\* a run-time panic in main: the deferred calls run, exit status 2
Panic(r, outcome) ==
    [r EXCEPT !.pc = "exited", !.waiting = FALSE, !.exit = 2, !.outcome = outcome,
              !.fs = RunDeferred(r.fs, r.deferred), !.deferred = <<>>]

(***************************************************************************)
(* External processes                                                       *)
(***************************************************************************)
\* exec.Command(tool, args...) and the start of cmd.Run / cmd.Output
Exec(r, tool, args) ==
    [r EXCEPT !.log = Append(@, [tool |-> tool, args |-> args, status |-> "running"]),
              !.waiting = TRUE]

LastCmd(r) == r.log[Len(r.log)]

Returned(r, ok) ==
    [r EXCEPT !.log[Len(r.log)].status = IF ok THEN "ok" ELSE "failed",
              !.waiting = FALSE]

Wrote(r, path, data) ==
    [r EXCEPT !.fs = WriteFile(r.fs, path, data), !.writes = Append(@, path)]

ManifestName == <<"AndroidManifest.xml">>

\* what the launched tool leaves on disk, by the arguments it was given
ToolRun(r, o) ==
    LET inv  == LastCmd(r)
        viaJ == inv.tool = <<"java">>
        prog == IF viaJ THEN <<"apktool">> ELSE inv.tool
        a    == IF viaJ THEN SubSeq(inv.args, 3, Len(inv.args)) ELSE inv.args
    IN  IF prog = <<"apktool">> /\ Len(a) = 5 /\ a[2] = <<"d">>
        THEN IF o.ok
             THEN Wrote(Wrote(r, a[5], <<"dir">>), Join(a[5], ManifestName), r.pkgManifest)
             ELSE r
        ELSE IF prog = <<"apktool">> /\ Len(a) = 6 /\ a[2] = <<"b">>
        THEN IF o.ok THEN Wrote(r, a[6], <<"unsigned">>)
             ELSE IF o.side THEN Wrote(r, a[6], <<"partial">>) ELSE r
        ELSE IF prog = <<"keytool">>
        THEN IF o.ok THEN Wrote(r, a[8], <<"keystore">>) ELSE r
        ELSE IF prog = <<"jarsigner">> /\ Len(a) = 8
        THEN IF o.ok THEN Wrote(r, a[7], <<"signed">>)
             ELSE IF o.side THEN Wrote(r, a[7], <<"partial">>) ELSE r
        ELSE r

\* processCMD after cmd.Run returned: the captured streams are printed only
\* for a failed command of a run with the debug flag
processCMD_DebugSwallowsError(r, o) ==
    LET d == Returned(ToolRun(r, o), o.ok)
    IN  IF ~o.ok /\ r.debugFlag
        THEN [r |-> Say(Say(d, "stdout", "Command output:"), "stderr", "Command error:"),
              err |-> FALSE]
        ELSE [r |-> d, err |-> ~o.ok]

processCMD(r, o) ==
    LET d == Returned(ToolRun(r, o), o.ok)
    IN  IF ~o.ok /\ r.debugFlag
        THEN [r |-> Say(Say(d, "stdout", "Command output:"), "stderr", "Command error:"),
              err |-> TRUE]
        ELSE [r |-> d, err |-> ~o.ok]

(***************************************************************************)
(* Stage bookkeeping                                                        *)
(***************************************************************************)
Begin(r, stage) == [r EXCEPT !.stages = Append(@, [stage |-> stage, status |-> "running"])]

End(r, ok) ==
    [r EXCEPT !.stages[Len(r.stages)].status = IF ok THEN "ok" ELSE "failed"]

(***************************************************************************)
(* main, step by step                                                       *)
(***************************************************************************)
\* lines 26-38
MainArgs(r) ==
    IF Len(r.argv) = 0
    THEN Return(Say(r, "print", "Usage: go run main.go [APK_FILE]"), "Usage")
    ELSE [r EXCEPT !.apk = r.argv[1],
                   !.debugFlag = (Len(r.argv) >= 2 /\ r.argv[2] = DebugWord),
                   !.pc = "getInstalledVersion"]

\* lines 39, 139-140: the version query is launched
VersionQueryStart(r) == Exec(r, r.apktool, << <<"--version">> >>)

\* lines 140-148, 40-42
VersionQueryReturn(r, o) ==
    LET d == Returned(r, o.ok)
        f == Fields(FirstLine(o.text))
    IN  IF ~o.ok
        THEN Fatal(d, "Failed to check installed apktool version: ", "VersionQueryFailed")
        ELSE IF f = <<>>
        THEN Panic(d, "VersionPanic")
        ELSE [d EXCEPT !.installedVersion = f[1], !.pc = "checkVersion"]

\* lines 44-54
CheckVersion(r) ==
    IF r.installedVersion # requiredVersion
    THEN IF Exists(r.fs, apktoolJar)
         THEN [Say(r, "print", "Found apktool_2.5.0.jar file in the current directory. Proceeding...")
                  EXCEPT !.apktool = <<"java">>,
                         !.apktoolArgs = r.apktoolArgs \o << <<"-jar">>, apktoolJar >>,
                         !.pc = "lookKeytool"]
         ELSE Return(Say(r, "stdout-token", "I require apktool version %s but found version %s. Aborting."),
                     "VersionMismatch")
    ELSE [r EXCEPT !.pc = "lookKeytool"]

\* lines 56-58
LookKeytool(r) ==
    IF "keytool" \notin r.tools
    THEN Fatal(r, "I require keytool but it's not installed. Aborting.", "KeytoolMissing")
    ELSE [r EXCEPT !.pc = "lookJarsigner"]

LookJarsigner_NoAbort(r) == [r EXCEPT !.pc = "TempDir"]

\* lines 60-62
LookJarsigner(r) ==
    IF "jarsigner" \notin r.tools
    THEN Fatal(r, "I require jarsigner but it's not installed. Aborting.", "JarsignerMissing")
    ELSE [r EXCEPT !.pc = "TempDir"]

\* lines 64-70
TempDir(r, o) ==
    IF ~o.ok
    THEN Fatal(r, "Failed to create temporary directory:", "TempDirFailed")
    ELSE [Wrote(r, tmpDirName, <<"dir">>)
             EXCEPT !.tmpDir = tmpDirName,
                    !.deferred = Append(r.deferred, tmpDirName),
                    !.debugAPK = DebugAPKPath(r.apk),
                    !.pc = "statApk"]

StatApk_MissingIsFatal(r) ==
    IF Exists(r.fs, r.apk)
    THEN [r EXCEPT !.pc = "Unpacking"]
    ELSE Fatal(r, "File not found: ", "NotFound")

\* lines 72, 117-120
StatApk(r) ==
    IF Exists(r.fs, r.apk)
    THEN [r EXCEPT !.pc = "Unpacking"]
    ELSE Return(Say(r, "print", "File not found: "), "NotFound")

\* lines 73-76
UnpackingStart(r) ==
    Exec(Begin(Say(r, "print", "=> Unpacking APK..."), "Unpacking"),
         r.apktool,
         r.apktoolArgs \o << <<"-q">>, <<"d">>, r.apk, <<"-o">>, Join(r.tmpDir, <<"app">>) >>)

UnpackingReturn_RetriesOnError(r, o) ==
    LET res == processCMD(r, o)
        d   == End(res.r, ~res.err)
    IN  IF res.err
        THEN [r EXCEPT !.waiting = FALSE,
                       !.log = SubSeq(r.log, 1, Len(r.log) - 1),
                       !.stages = SubSeq(r.stages, 1, Len(r.stages) - 1),
                       !.out = SubSeq(r.out, 1, Len(r.out) - 1)]
        ELSE [d EXCEPT !.pc = "PatchingManifest"]

UnpackingReturn_ErrIgnored(r, o) ==
    LET res == processCMD(r, o)
        d   == End(res.r, ~res.err)
    IN  [d EXCEPT !.pc = "PatchingManifest"]

\* lines 76-79
UnpackingReturn(r, o) ==
    LET res == processCMD(r, o)
        d   == End(res.r, ~res.err)
    IN  IF res.err THEN Fatal(d, "Failed to unpack APK: ", "Failed")
        ELSE [d EXCEPT !.pc = "PatchingManifest"]

addDebuggableFlag_TruncatesBeforeRead(r, manifestPath, o) ==
    IF ~o.ok \/ ~Exists(r.fs, manifestPath)
    THEN [r |-> Wrote(r, manifestPath, <<>>), err |-> TRUE, cause |-> "read"]
    ELSE IF ~o.side
    THEN [r |-> IF o.part THEN Wrote(r, manifestPath, <<>>) ELSE r,
          err |-> TRUE, cause |-> "write"]
    ELSE [r |-> Wrote(r, manifestPath, PatchContent(r.fs[manifestPath])),
          err |-> FALSE, cause |-> ""]

\* lines 151-165: o.ok is the read, o.side the write; a write that fails
\* after the file was opened (o.part) leaves it truncated
addDebuggableFlag(r, manifestPath, o) ==
    IF ~o.ok \/ ~Exists(r.fs, manifestPath)
    THEN [r |-> r, err |-> TRUE, cause |-> "read"]
    ELSE IF ~o.side
    THEN [r |-> IF o.part THEN Wrote(r, manifestPath, <<>>) ELSE r,
          err |-> TRUE, cause |-> "write"]
    ELSE [r |-> Wrote(r, manifestPath, PatchContent(r.fs[manifestPath])),
          err |-> FALSE, cause |-> ""]

PatchingManifest_ErrIgnored(r, o) ==
    LET b   == Begin(Say(r, "print", "=> Adding debug flag..."), "PatchingManifest")
        res == addDebuggableFlag(b, Join(Join(r.tmpDir, <<"app">>), ManifestName), o)
        d   == End(res.r, ~res.err)
    IN  [d EXCEPT !.pc = "Repacking"]

\* lines 81-85
PatchingManifest(r, o) ==
    LET b   == Begin(Say(r, "print", "=> Adding debug flag..."), "PatchingManifest")
        res == addDebuggableFlag(b, Join(Join(r.tmpDir, <<"app">>), ManifestName), o)
        d   == End(res.r, ~res.err)
    IN  IF res.err
        THEN Fatal(d, IF res.cause = "read"
                      THEN "Failed to add debug flag: read error"
                      ELSE "Failed to add debug flag: write error", "Failed")
        ELSE [d EXCEPT !.pc = "Repacking"]

RepackingStart_OutputOverInput(r) ==
    Exec(Begin(Say(r, "print", "=> Repacking APK..."), "Repacking"),
         r.apktool,
         r.apktoolArgs \o << <<"-q">>, <<"b">>, Join(r.tmpDir, <<"app">>),
                             <<"--use-aapt2">>, <<"-o">>, r.apk >>)

RepackingStart_DirectTool(r) ==
    Exec(Begin(Say(r, "print", "=> Repacking APK..."), "Repacking"),
         <<"apktool">>,
         << <<"-q">>, <<"b">>, Join(r.tmpDir, <<"app">>),
            <<"--use-aapt2">>, <<"-o">>, r.debugAPK >>)

\* lines 87-90
RepackingStart(r) ==
    Exec(Begin(Say(r, "print", "=> Repacking APK..."), "Repacking"),
         r.apktool,
         r.apktoolArgs \o << <<"-q">>, <<"b">>, Join(r.tmpDir, <<"app">>),
                             <<"--use-aapt2">>, <<"-o">>, r.debugAPK >>)

\* lines 90-93
RepackingReturn(r, o) ==
    LET res == processCMD(r, o)
        d   == End(res.r, ~res.err)
    IN  IF res.err THEN Fatal(d, "Failed to repackage APK:", "Failed")
        ELSE [d EXCEPT !.pc = "GeneratingCredentials"]

\* lines 95-97, 167-176
generateKeyStoreStart(r) ==
    Exec(Begin(Say(r, "print", "=> Signing APK..."), "GeneratingCredentials"),
         <<"keytool">>,
         << <<"-genkey">>, <<"-noprompt">>, <<"-alias">>, <<"alias1">>,
            <<"-dname">>, <<"CN=Unknown, OU=Unknown, O=Unknown, L=Unknown, S=Unknown, C=Unknown">>,
            <<"-keystore">>, Join(r.tmpDir, <<"keystore">>),
            <<"-keyalg">>, <<"RSA">>,
            <<"-storepass">>, <<"password">>, <<"-keypass">>, <<"password">> >>)

\* lines 176-181, 97-99
generateKeyStoreReturn(r, o) ==
    LET res == processCMD(r, o)
        d   == End(res.r, ~res.err)
    IN  IF res.err THEN Fatal(d, "Failed to generate keystore: ", "Failed")
        ELSE [d EXCEPT !.pc = "Signing"]

SigningStart_RelativeKeystore(r) ==
    Exec(Begin(r, "Signing"),
         <<"jarsigner">>,
         << <<"-keystore">>, <<"keystore">>,
            <<"-storepass">>, <<"password">>, <<"-keypass">>, <<"password">>,
            r.debugAPK, <<"alias1">> >>)

\* lines 101-102
SigningStart(r) ==
    Exec(Begin(r, "Signing"),
         <<"jarsigner">>,
         << <<"-keystore">>, Join(r.tmpDir, <<"keystore">>),
            <<"-storepass">>, <<"password">>, <<"-keypass">>, <<"password">>,
            r.debugAPK, <<"alias1">> >>)

\* lines 102-105
SigningReturn(r, o) ==
    LET res == processCMD(r, o)
        d   == End(res.r, ~res.err)
    IN  IF res.err THEN Fatal(d, "Failed to sign APK: ", "Failed")
        ELSE [d EXCEPT !.pc = "Verifying"]

\* lines 107-108, 184-190
verifyAPKStart(r) ==
    Exec(Begin(Say(r, "print", "=> Checking your debug APK..."), "Verifying"),
         <<"jarsigner">>, << <<"-verify">>, r.debugAPK >>)

verifyAPKReturn_ErrIgnored(r, o) ==
    LET d == End(Returned(r, o.ok), o.ok)
    IN  Return(Say(Say(d, "stdout-lines", "first two lines of jarsigner -verify"),
                   "print", "Success! Your debug APK: "),
               "Succeeded")

\* lines 190-203, 108-120: verifyAPK has no debug flag and captures stdout only
verifyAPKReturn(r, o) ==
    LET d == End(Returned(r, o.ok), o.ok)
    IN  IF ~o.ok THEN Fatal(d, "Failed to verify debug APK: ", "Failed")
        ELSE Return(Say(Say(d, "stdout-lines", "first two lines of jarsigner -verify"),
                        "print", "Success! Your debug APK: "),
                    "Succeeded")

\* the next step of main from where it stands
Step(r, o) ==
    CASE r.pc = "main"                  -> MainArgs(r)
      [] r.pc = "getInstalledVersion"   ->
            IF r.waiting THEN VersionQueryReturn(r, o) ELSE VersionQueryStart(r)
      [] r.pc = "checkVersion"          -> CheckVersion(r)
      [] r.pc = "lookKeytool"           -> LookKeytool(r)
      [] r.pc = "lookJarsigner"         -> LookJarsigner(r)
      [] r.pc = "TempDir"               -> TempDir(r, o)
      [] r.pc = "statApk"               -> StatApk(r)
      [] r.pc = "Unpacking"             ->
            IF r.waiting THEN UnpackingReturn(r, o) ELSE UnpackingStart(r)
      [] r.pc = "PatchingManifest"      -> PatchingManifest(r, o)
      [] r.pc = "Repacking"             ->
            IF r.waiting THEN RepackingReturn(r, o) ELSE RepackingStart(r)
      [] r.pc = "GeneratingCredentials" ->
            IF r.waiting THEN generateKeyStoreReturn(r, o) ELSE generateKeyStoreStart(r)
      [] r.pc = "Signing"               ->
            IF r.waiting THEN SigningReturn(r, o) ELSE SigningStart(r)
      [] r.pc = "Verifying"             ->
            IF r.waiting THEN verifyAPKReturn(r, o) ELSE verifyAPKStart(r)
      [] OTHER                          -> r

(***************************************************************************)
(* Spec: one run                                                            *)
(***************************************************************************)
Init ==
    /\ run \in InitRuns
    /\ twin = NoRun
    /\ input = <<>>
    /\ output = <<>>

At(pc, waiting) == run.pc = pc /\ run.waiting = waiting

Others == UNCHANGED <<twin, input, output>>

ParseArgs == At("main", FALSE) /\ run' = MainArgs(run) /\ Others

QueryVersion == At("getInstalledVersion", FALSE) /\ run' = VersionQueryStart(run) /\ Others

VersionReturns ==
    /\ At("getInstalledVersion", TRUE)
    /\ \E o \in Outcomes : run' = VersionQueryReturn(run, o)
    /\ Others

CompareVersion == At("checkVersion", FALSE) /\ run' = CheckVersion(run) /\ Others

FindKeytool == At("lookKeytool", FALSE) /\ run' = LookKeytool(run) /\ Others

FindJarsigner == At("lookJarsigner", FALSE) /\ run' = LookJarsigner(run) /\ Others

MakeTempDir ==
    /\ At("TempDir", FALSE)
    /\ \E o \in Outcomes : run' = TempDir(run, o)
    /\ Others

CheckInput == At("statApk", FALSE) /\ run' = StatApk(run) /\ Others

Unpack == At("Unpacking", FALSE) /\ run' = UnpackingStart(run) /\ Others

UnpackReturns ==
    /\ At("Unpacking", TRUE)
    /\ \E o \in Outcomes : run' = UnpackingReturn(run, o)
    /\ Others

Patch ==
    /\ At("PatchingManifest", FALSE)
    /\ \E o \in Outcomes : run' = PatchingManifest(run, o)
    /\ Others

Repack == At("Repacking", FALSE) /\ run' = RepackingStart(run) /\ Others

RepackReturns ==
    /\ At("Repacking", TRUE)
    /\ \E o \in Outcomes : run' = RepackingReturn(run, o)
    /\ Others

GenerateKeyStore ==
    At("GeneratingCredentials", FALSE) /\ run' = generateKeyStoreStart(run) /\ Others

KeyStoreReturns ==
    /\ At("GeneratingCredentials", TRUE)
    /\ \E o \in Outcomes : run' = generateKeyStoreReturn(run, o)
    /\ Others

Sign == At("Signing", FALSE) /\ run' = SigningStart(run) /\ Others

SignReturns ==
    /\ At("Signing", TRUE)
    /\ \E o \in Outcomes : run' = SigningReturn(run, o)
    /\ Others

Verify == At("Verifying", FALSE) /\ run' = verifyAPKStart(run) /\ Others

VerifyReturns ==
    /\ At("Verifying", TRUE)
    /\ \E o \in Outcomes : run' = verifyAPKReturn(run, o)
    /\ Others

Next ==
    \/ ParseArgs
    \/ QueryVersion
    \/ VersionReturns
    \/ CompareVersion
    \/ FindKeytool
    \/ FindJarsigner
    \/ MakeTempDir
    \/ CheckInput
    \/ Unpack
    \/ UnpackReturns
    \/ Patch
    \/ Repack
    \/ RepackReturns
    \/ GenerateKeyStore
    \/ KeyStoreReturns
    \/ Sign
    \/ SignReturns
    \/ Verify
    \/ VerifyReturns

Spec == Init /\ [][Next]_vars

(***************************************************************************)
(* SpecPair: the same run twice, with and without the debug argument, fed   *)
(* the same outcome at every step                                           *)
(***************************************************************************)
WithoutDebug(r) == [r EXCEPT !.argv = IF r.argv = <<>> THEN <<>> ELSE <<r.argv[1]>>]

InitPair ==
    /\ run \in {r \in InitRuns : Len(r.argv) = 2}
    /\ twin = WithoutDebug(run)
    /\ input = <<>>
    /\ output = <<>>

PairStep ==
    /\ run.pc # "exited" \/ twin.pc # "exited"
    /\ \E o \in Outcomes : run' = Step(run, o) /\ twin' = Step(twin, o)
    /\ UNCHANGED <<input, output>>

NextPair == PairStep

SpecPair == InitPair /\ [][NextPair]_vars

Exited == run.pc = "exited"

(***************************************************************************)
(* SpecPatch: addDebuggableFlag's rewriting applied to bounded manifests    *)
(***************************************************************************)
DebuggableName == <<"a", "n", "d", "r", "o", "i", "d", ":", "d", "e", "b", "u", "g", "g", "a", "b", "l", "e", "=">>

DebuggableTrue == <<"a", "n", "d", "r", "o", "i", "d", ":", "d", "e", "b", "u", "g", "g", "a", "b", "l", "e", "=", "\"", "t", "r", "u", "e", "\"">>

Fragments == {ApplicationTag, <<"a", "n", "d", "r", "o", "i", "d", ":", "d", "e", "b", "u", "g", "g", "a", "b", "l", "e", "=", "\"", "f", "a", "l", "s", "e", "\"", " ">>, <<"a", "=", "\"", "b", "\"", " ">>, <<">">>, DebuggablePattern}

RECURSIVE Texts(_, _)
Texts(frags, n) ==
    IF n = 0 THEN {<<>>}
    ELSE LET shorter == Texts(frags, n - 1)
         IN  shorter \cup {s \o f : s \in shorter, f \in frags}

Manifests == Texts(Fragments, MaxFrags)

InitPatch ==
    /\ run = NoRun
    /\ twin = NoRun
    /\ input \in Manifests
    /\ output = <<>>

\* lines 157-159 on the text read from the file
PatchText ==
    /\ output = <<>>
    /\ output' = <<PatchContent(input)>>
    /\ UNCHANGED <<run, twin, input>>

NextPatch == PatchText

SpecPatch == InitPatch /\ [][NextPatch]_vars

(***************************************************************************)
(* SpecPath: the output path derived from bounded input paths               *)
(***************************************************************************)
PathChars == {<<"a">>, <<"k">>, <<".">>, <<"/">>}

ApkPaths == Texts(PathChars, MaxPathLen) \cup SamplePaths

InitPath ==
    /\ run = NoRun
    /\ twin = NoRun
    /\ input \in ApkPaths
    /\ output = <<>>

\* line 70
DerivePath ==
    /\ output = <<>>
    /\ output' = <<DebugAPKPath(input)>>
    /\ UNCHANGED <<run, twin, input>>

NextPath == DerivePath

SpecPath == InitPath /\ [][NextPath]_vars

(***************************************************************************)
(* Vocabulary of the properties                                             *)
(***************************************************************************)
Count(s, p) == Cardinality({i \in 1..Len(s) : HasPrefixAt(s, i, p)})

Last(s) == s[Len(s)]

StageStatus(r, i) == IF i <= Len(r.stages) THEN r.stages[i].status ELSE "pending"

AllSucceeded(r) == \A i \in 1..Len(StageOrder) : StageStatus(r, i) = "ok"

SomeStageFailed(r) == \E i \in 1..Len(r.stages) : r.stages[i].status = "failed"

WorkspaceOnDisk(r) == \E p \in DOMAIN r.fs : Under(p, tmpDirName)

Printed(r, kind) == \E i \in 1..Len(r.out) : r.out[i].kind = kind

HasInput(r) == r.argv # <<>>

(***************************************************************************)
(* Properties                                                               *)
(***************************************************************************)

\* C1: once the process has exited, the workspace directory a run created is
\* absent from the file system, on every exit path.
C1_WorkspaceRemovedOnEveryExit ==
    (Exited /\ run.tmpDir # <<>>) => ~WorkspaceOnDisk(run)

\* C2: the stages start in the fixed order, each only after its predecessor
\* returned success, and once a stage failed nothing more is started.
C2_InOrder ==
    /\ Len(run.stages) <= Len(StageOrder)
    /\ \A i \in 1..Len(run.stages) :
          /\ run.stages[i].stage = StageOrder[i]
          /\ i < Len(run.stages) => run.stages[i].status = "ok"

C2_NothingAfterFailure ==
    SomeStageFailed(run) => (run'.stages = run.stages /\ run'.log = run.log)

C2_StagesInOrderFailFast == []C2_InOrder /\ [][C2_NothingAfterFailure]_vars

C2_RepackFailedWitness ==
    /\ Exited
    /\ Len(run.stages) = 3
    /\ run.stages[3] = [stage |-> "Repacking", status |-> "failed"]
    /\ \A i \in 1..Len(run.log) : run.log[i].tool \notin {<<"keytool">>, <<"jarsigner">>}

\* C3: every precondition failure and every stage failure exits nonzero;
\* status zero is only full success and input-not-found.
C3_OnlySuccessAndNotFoundExitZero ==
    (Exited /\ HasInput(run)) =>
        /\ run.outcome \in {"VersionQueryFailed", "VersionMismatch", "KeytoolMissing",
                            "JarsignerMissing", "Failed"} => run.exit # 0
        /\ run.exit = 0 => run.outcome \in {"Succeeded", "NotFound"}

\* C4: a failed version query, a version mismatch without the fallback jar,
\* or a missing keytool or jarsigner ends the run with no workspace, no
\* stage started and no process launched but the version query.
VersionQueryFailed(r) == Len(r.log) >= 1 /\ r.log[1].status = "failed"

VersionMismatchNoFallback(r) ==
    /\ r.installedVersion \notin {<<>>, requiredVersion}
    /\ apktoolJar \notin r.fs0

AuxToolMissing(r) == r.tools # AuxTools

C4_EnvironmentAbortBeforeWorkspace ==
    (HasInput(run)
       /\ (VersionQueryFailed(run) \/ VersionMismatchNoFallback(run) \/ AuxToolMissing(run)))
    => /\ run.tmpDir = <<>>
       /\ ~WorkspaceOnDisk(run)
       /\ run.writes = <<>>
       /\ run.stages = <<>>
       /\ Len(run.log) <= 1
       /\ \A i \in 1..Len(run.log) : run.log[i].args = << <<"--version">> >>
       /\ run.pc \in {"main", "getInstalledVersion", "checkVersion", "lookKeytool",
                      "lookJarsigner", "exited"}

C4_JarsignerMissingWitness ==
    /\ Exited
    /\ "keytool" \in run.tools
    /\ "jarsigner" \notin run.tools
    /\ Len(run.log) = 1
    /\ run.log[1].status = "ok"
    /\ run.exit = 1

\* C5 as stated: every run whose input path does not exist prints the
\* not-found message, exits with status 0, starts no stage and writes no
\* output package.
NotFoundEnding(r) ==
    /\ \E i \in 1..Len(r.out) : r.out[i].text = "File not found: "
    /\ r.exit = 0
    /\ r.stages = <<>>
    /\ \A i \in 1..Len(r.writes) : r.writes[i] # DebugAPKPath(r.argv[1])

InputMissing(r) == HasInput(r) /\ r.argv[1] \notin r.fs0

C5_Original_AnyMissingInput ==
    (Exited /\ InputMissing(run)) => NotFoundEnding(run)

\* C5 amended: a run that passed the environment checks and created its
\* workspace, and whose input path does not exist, ends that way.
C5_MissingInputAfterChecks ==
    (Exited /\ InputMissing(run) /\ run.tmpDir # <<>>) => NotFoundEnding(run)

C5_NotFoundWitness ==
    /\ Exited
    /\ InputMissing(run)
    /\ run.tmpDir # <<>>
    /\ run.exit = 0
    /\ run.stages = <<>>

\* C6: a manifest with one application tag and at most one debuggable
\* attribute is patched into one whose application element carries exactly
\* one debuggable attribute, with value "true".
RECURSIVE IndexFrom(_, _, _)
IndexFrom(s, i, p) ==
    IF i > Len(s) THEN 0
    ELSE IF HasPrefixAt(s, i, p) THEN i
    ELSE IndexFrom(s, i + 1, p)

ApplicationElement(s) ==
    LET b == IndexFrom(s, 1, ApplicationTag)
        e == IF b = 0 THEN 0 ELSE IndexFrom(s, b, <<">">>)
    IN  IF b = 0 THEN <<>>
        ELSE SubSeq(s, b, IF e = 0 THEN Len(s) ELSE e)

C6_PatchLeavesOneDebuggableTrue ==
    (output # <<>> /\ Count(input, ApplicationTag) = 1 /\ Count(input, DebuggableName) <= 1)
    => /\ Count(ApplicationElement(output[1]), DebuggableName) = 1
       /\ Count(ApplicationElement(output[1]), DebuggableTrue) = 1

\* C7 as stated: the output path is the input path with its extension
\* replaced by ".debug" followed by the original extension.
IsExtAt(p, k) ==
    \/ /\ k < Len(p)
       /\ p[k + 1] = "."
       /\ \A j \in (k + 2)..Len(p) : p[j] \notin {".", "/"}
    \/ /\ k = Len(p)
       /\ ~\E j \in 1..Len(p) : p[j] = "." /\ \A i \in (j + 1)..Len(p) : p[i] # "/"

OutputCreated(r) ==
    /\ r.debugAPK # <<>>
    /\ r.debugAPK \notin r.fs0
    /\ Exists(r.fs, r.debugAPK)

C8_Original_OutputOnlyOnFullSuccess ==
    (Exited /\ OutputCreated(run)) => AllSucceeded(run)

\* C8 amended: a file is at the output path only if Unpacking and
\* PatchingManifest succeeded and Repacking was started; a later failure
\* leaves what Repacking or Signing wrote.
C8_OutputOnlyAfterPatchedRepack ==
    (Exited /\ OutputCreated(run)) =>
        /\ StageStatus(run, 1) = "ok"
        /\ StageStatus(run, 2) = "ok"
        /\ StageStatus(run, 3) \in {"ok", "failed"}

C8_UnsignedLeftWitness ==
    /\ Exited
    /\ OutputCreated(run)
    /\ run.exit = 1
    /\ run.fs[run.debugAPK] = <<"unsigned">>
    /\ StageStatus(run, 4) = "failed"

\* C9 as stated: with and without the debug flag the two runs make the same
\* invocations and exit alike; they differ only in the dump of a failed
\* command's captured streams, and no captured output is printed for a
\* command that succeeded.
IsDump(item) == item.kind \in {"stdout", "stderr"}

IsPlain(item) == ~IsDump(item)

SameControl ==
    /\ run.pc = twin.pc
    /\ run.waiting = twin.waiting
    /\ run.log = twin.log
    /\ run.stages = twin.stages
    /\ run.exit = twin.exit
    /\ run.fs = twin.fs

DifferOnlyInFailureDump ==
    /\ SelectSeq(run.out, IsPlain) = twin.out
    /\ ~\E i \in 1..Len(twin.out) : IsDump(twin.out[i])
    /\ (\E i \in 1..Len(run.out) : IsDump(run.out[i]))
          => (run.log # <<>> /\ Last(run.log).status = "failed")

NoCapturedOutputOfSuccess(r) ==
    \A i \in 1..Len(r.out) :
        r.out[i].kind \in {"stdout", "stderr", "stdout-lines"}
            => (r.log # <<>> /\ Last(r.log).status = "failed")

C9_Original_DebugFlagNoInfluence ==
    /\ SameControl
    /\ DifferOnlyInFailureDump
    /\ NoCapturedOutputOfSuccess(run)
    /\ NoCapturedOutputOfSuccess(twin)

\* C9 amended: the same, except that output of a successful command does
\* reach the user in two places, alike in both runs: the first two lines of
\* a successful verification, and the version token quoted by the
\* version-mismatch report.
CapturedOfSuccessOnlyFrom(r) ==
    \A i \in 1..Len(r.out) :
        /\ r.out[i].kind = "stdout-lines" =>
              /\ Last(r.log).args[1] = <<"-verify">>
              /\ Last(r.log).status = "ok"
        /\ r.out[i].kind = "stdout-token" =>
              /\ Len(r.log) = 1
              /\ r.log[1].status = "ok"
              /\ r.outcome = "VersionMismatch"

C9_DebugFlagOnlyAddsFailureDump ==
    /\ SameControl
    /\ DifferOnlyInFailureDump
    /\ CapturedOfSuccessOnlyFrom(run)
    /\ CapturedOfSuccessOnlyFrom(twin)

C9_DumpOnlyInDebugRunWitness ==
    /\ run.pc = "exited"
    /\ twin.pc = "exited"
    /\ run.debugFlag
    /\ ~twin.debugFlag
    /\ run.stages # <<>>
    /\ Last(run.stages) = [stage |-> "Repacking", status |-> "failed"]
    /\ Printed(run, "stdout")
    /\ Printed(run, "stderr")
    /\ run.exit = 1

\* C10: with the debug flag, when the external command of Unpacking,
\* Repacking, GeneratingCredentials, Signing or Verifying fails, its
\* captured standard output and standard error are shown before the exit.
C10_DebugShowsCapturedOfFailedStage ==
    (Exited /\ run.debugFlag /\ run.stages # <<>>
       /\ Last(run.stages).status = "failed"
       /\ Last(run.stages).stage # "PatchingManifest")
    => (Printed(run, "stdout") /\ Printed(run, "stderr"))

\* C11: after a version mismatch with the fallback jar present, Unpacking
\* and Repacking both run "java -jar apktool_2.5.0.jar" followed by the
\* unchanged stage arguments and "apktool" itself is never launched again;
\* with a matching version both run "apktool" with the stage arguments only.
UnpackArgs(r) == << <<"-q">>, <<"d">>, r.argv[1], <<"-o">>, tmpDirName \o <<"/", "app">> >>

RepackArgs(r) ==
    << <<"-q">>, <<"b">>, tmpDirName \o <<"/", "app">>, <<"--use-aapt2">>, <<"-o">>,
       r.debugAPK >>

StageArgs(r, i) == IF i = 2 THEN UnpackArgs(r) ELSE RepackArgs(r)

VersionKnown(r) == r.pc \notin {"main", "getInstalledVersion", "checkVersion"}

C11_PrimaryToolResolvedOnce ==
    /\ (VersionKnown(run) /\ run.installedVersion # requiredVersion /\ apktoolJar \in run.fs0)
         => \A i \in 2..Len(run.log) :
               /\ run.log[i].tool # <<"apktool">>
               /\ i \in {2, 3} =>
                     /\ run.log[i].tool = <<"java">>
                     /\ run.log[i].args = << <<"-jar">>, apktoolJar >> \o StageArgs(run, i)
    /\ (VersionKnown(run) /\ run.installedVersion = requiredVersion)
         => \A i \in 2..Len(run.log) :
               i \in {2, 3} =>
                     /\ run.log[i].tool = <<"apktool">>
                     /\ run.log[i].args = StageArgs(run, i)

C11_FallbackUsedTwiceWitness ==
    /\ Exited
    /\ run.outcome = "Succeeded"
    /\ run.installedVersion # requiredVersion
    /\ Len(run.log) = 6
    /\ run.log[1].tool = <<"apktool">>
    /\ run.log[2].tool = <<"java">>
    /\ run.log[3].tool = <<"java">>

\* C12: the patch changes nothing but debuggable attributes: deleting every
\* android:debuggable="..." attribute (with the spaces after it) from the
\* patched text and from the original text gives the same text, and every
\* inserted attribute directly follows an "<application " token.
AttrOpen == <<"a", "n", "d", "r", "o", "i", "d", ":", "d", "e", "b", "u", "g", "g", "a", "b", "l", "e", "=", "\"">>

RECURSIVE SkipSpaces(_, _)
SkipSpaces(s, i) ==
    IF i <= Len(s) /\ s[i] = " " THEN SkipSpaces(s, i + 1) ELSE i

RECURSIVE StripFrom(_, _)
StripFrom(s, i) ==
    IF i > Len(s) THEN <<>>
    ELSE LET q == IF HasPrefixAt(s, i, AttrOpen)
                  THEN IndexFrom(s, i + Len(AttrOpen), <<"\"">>)
                  ELSE 0
         IN  IF q = 0 THEN <<s[i]>> \o StripFrom(s, i + 1)
             ELSE StripFrom(s, SkipSpaces(s, q + 1))

StripDebuggable(s) == StripFrom(s, 1)

C12_PatchChangesOnlyDebuggable ==
    output # <<>> =>
        /\ StripDebuggable(output[1]) = StripDebuggable(input)
        /\ \A i \in 1..Len(output[1]) :
              HasPrefixAt(output[1], i, ApplicationTag)
                  => HasPrefixAt(output[1], i, ApplicationDebuggable)
        /\ Count(output[1], AttrOpen) <= Count(input, AttrOpen) + Count(output[1], ApplicationTag)

\* C13: the unpacked manifest is overwritten at most once and only after
\* Unpacking succeeded; when reading it fails it is not written at all, the
\* run reports a PatchingManifest failure and Repacking never starts.
UnpackedManifest == tmpDirName \o <<"/", "app", "/", "AndroidManifest.xml">>

Overwrites(r, path) ==
    Cardinality({i \in 1..Len(r.writes) :
                    /\ r.writes[i] = path
                    /\ \E j \in 1..(i - 1) : r.writes[j] = path})

ManifestReadFailed(r) ==
    \E i \in 1..Len(r.out) :
        r.out[i] = [kind |-> "fatal", text |-> "Failed to add debug flag: read error"]

C13_ManifestWrittenOnceAfterUnpack ==
    /\ Overwrites(run, UnpackedManifest) <= 1
    /\ Overwrites(run, UnpackedManifest) = 1 =>
          /\ StageStatus(run, 1) = "ok"
          /\ StageStatus(run, 2) # "pending"
    /\ ManifestReadFailed(run) =>
          /\ Overwrites(run, UnpackedManifest) = 0
          /\ Exists(run.fs, UnpackedManifest)
          /\ run.fs[UnpackedManifest] = run.pkgManifest
          /\ run.stages = << [stage |-> "Unpacking", status |-> "ok"],
                             [stage |-> "PatchingManifest", status |-> "failed"] >>
          /\ Len(run.log) = 2
          /\ run.pc = "exited"
          /\ run.exit = 1

C13_ReadFailureWitness ==
    /\ Exited
    /\ ManifestReadFailed(run)
    /\ StageStatus(run, 3) = "pending"

\* C14: in a run that reaches Signing, jarsigner gets the key-store path,
\* alias, store passphrase and key passphrase that keytool got, the
\* key-store lies inside the workspace, and the file signed and then
\* verified is the output path Repacking wrote.
ArgAfter(args, flag) ==
    IF \E i \in 1..(Len(args) - 1) : args[i] = flag
    THEN args[(CHOOSE i \in 1..(Len(args) - 1) : args[i] = flag) + 1]
    ELSE <<>>

C14_SigningUsesGeneratedCredentials ==
    Len(run.log) >= 5 =>
        LET repack == run.log[3].args
            keygen == run.log[4].args
            sign   == run.log[5].args
            target == sign[Len(sign) - 1]
        IN  /\ run.log[4].tool = <<"keytool">>
            /\ run.log[5].tool = <<"jarsigner">>
            /\ ArgAfter(keygen, <<"-keystore">>) # <<>>
            /\ ArgAfter(sign, <<"-keystore">>) = ArgAfter(keygen, <<"-keystore">>)
            /\ ArgAfter(sign, <<"-storepass">>) = ArgAfter(keygen, <<"-storepass">>)
            /\ ArgAfter(sign, <<"-keypass">>) = ArgAfter(keygen, <<"-keypass">>)
            /\ ArgAfter(keygen, <<"-storepass">>) # <<>>
            /\ ArgAfter(keygen, <<"-keypass">>) # <<>>
            /\ Last(sign) = ArgAfter(keygen, <<"-alias">>)
            /\ Under(ArgAfter(sign, <<"-keystore">>), run.tmpDir)
            /\ run.tmpDir # <<>>
            /\ target = ArgAfter(repack, <<"-o">>)
            /\ target = run.debugAPK
            /\ \E i \in 1..Len(run.writes) : run.writes[i] = target
            /\ Len(run.log) >= 6 => run.log[6].args = << <<"-verify">>, target >>

C14_SignedAndVerifiedWitness ==
    /\ Exited
    /\ run.outcome = "Succeeded"
    /\ Len(run.log) = 6
    /\ run.log[5].status = "ok"
    /\ run.log[6].status = "ok"
    /\ run.fs[run.debugAPK] = <<"signed">>

\* C15: no stage is started twice, at most one stage action and one external
\* command is in progress at a time, and the success banner with exit status
\* 0 appears only when each of the six stages ran exactly once and succeeded.
SuccessReported(r) ==
    /\ r.exit = 0
    /\ \E i \in 1..Len(r.out) : r.out[i].text = "Success! Your debug APK: "

C15_NoRetryNoOverlap ==
    /\ \A i, j \in 1..Len(run.stages) :
          run.stages[i].stage = run.stages[j].stage => i = j
    /\ \A i \in 1..Len(run.stages) :
          run.stages[i].status = "running" => i = Len(run.stages)
    /\ \A i \in 1..Len(run.log) :
          run.log[i].status = "running" => (i = Len(run.log) /\ run.waiting)
    /\ SuccessReported(run) =>
          /\ Len(run.stages) = Len(StageOrder)
          /\ \A i \in 1..Len(StageOrder) :
                run.stages[i] = [stage |-> StageOrder[i], status |-> "ok"]
          /\ \A i \in 1..Len(run.log) : run.log[i].status = "ok"
          /\ Exists(run.fs, run.debugAPK)

C15_SucceededWitness ==
    /\ Exited
    /\ SuccessReported(run)
    /\ Len(run.stages) = 6

(***************************************************************************)
(* SpecLive: the run with an external tool that may never return.  cmd.Run  *)
(* and cmd.Output block without a timeout; main itself always takes its     *)
(* next step, and a launched tool either returns or hangs for good.         *)
(***************************************************************************)
Hung == run.log # <<>> /\ Last(run.log).status = "hung"

\* lines 127, 140, 190: the call never returns
ToolHangs ==
    /\ run.waiting
    /\ Last(run.log).status = "running"
    /\ run' = [run EXCEPT !.log[Len(run.log)].status = "hung"]
    /\ Others

MainSteps == ~Hung /\ Next

NextLive ==
    \/ MainSteps
    \/ ToolHangs

SpecLive == Init /\ [][NextLive]_vars /\ WF_vars(NextLive)

\* C16: if every external command returns, the run reaches a terminal
\* outcome; after a terminal outcome nothing more happens; and a run whose
\* external tool hangs stays in that stage forever.
C16_TerminatesUnlessToolHangs ==
    /\ ([]~Hung) => <>Exited
    /\ [][Exited => (run' = run)]_vars
    /\ [][Hung => (run' = run)]_vars
    /\ [](Exited => run.outcome \in {"Usage", "VersionQueryFailed", "VersionPanic",
                                     "VersionMismatch", "KeytoolMissing", "JarsignerMissing",
                                     "TempDirFailed", "NotFound", "Failed", "Succeeded"})

C16_HungInRepackingWitness ==
    /\ Hung
    /\ run.pc = "Repacking"
    /\ run.stages # <<>>
    /\ Last(run.stages) = [stage |-> "Repacking", status |-> "running"]

\* C17: the output path never equals the input path and no stage writes to
\* the input path: Unpacking, PatchingManifest and GeneratingCredentials
\* write only inside the workspace, Repacking and Signing only to the output
\* path.
C17_InputUntouched ==
    /\ \A p \in ApkPaths : DebugAPKPath(p) # p
    /\ run.debugAPK # <<>> => run.debugAPK # run.apk
    /\ \A i \in 1..Len(run.writes) : run.writes[i] # run.argv[1]
    /\ (HasInput(run) /\ run.argv[1] \in run.fs0) =>
          /\ Exists(run.fs, run.argv[1])
          /\ run.fs[run.argv[1]] = <<"old">>

C17_WritesStayInPlace ==
    \A i \in (Len(run.writes) + 1)..Len(run'.writes) :
        LET p == run'.writes[i]
        IN  IF run'.stages = <<>>
            THEN Under(p, tmpDirName)
            ELSE /\ Last(run'.stages).stage \in {"Unpacking", "PatchingManifest",
                                                 "GeneratingCredentials"}
                    => Under(p, tmpDirName)
                 /\ Last(run'.stages).stage \in {"Repacking", "Signing"}
                    => p = DebugAPKPath(run.argv[1])
                 /\ Last(run'.stages).stage # "Verifying"

C17_InputReadOnly == []C17_InputUntouched /\ [][C17_WritesStayInPlace]_vars

C17_AllWritesDoneWitness ==
    /\ Exited
    /\ run.outcome = "Succeeded"
    /\ Len(run.writes) = 7
    /\ run.fs[run.apk] = <<"old">>

\* C18: a version query that cannot be launched or exits nonzero ends in the
\* fatal version-check report; otherwise, whatever the tool printed (nothing
\* at all or a blank first line included), getInstalledVersion hands back
\* the first token of the first line or an error that main reports.
VersionCheckReported(r) ==
    \E i \in 1..Len(r.out) :
        r.out[i] = [kind |-> "fatal", text |-> "Failed to check installed apktool version: "]

C18_VersionQueryControlled ==
    (Len(run.log) >= 1 /\ run.log[1].status \in {"ok", "failed"}) =>
        IF run.log[1].status = "failed"
        THEN run.pc = "exited" /\ run.exit = 1 /\ VersionCheckReported(run)
        ELSE \/ /\ run.installedVersion # <<>>
                /\ \A i \in 1..Len(run.installedVersion) : ~IsSpace(run.installedVersion[i])
             \/ run.pc = "exited" /\ run.exit = 1 /\ VersionCheckReported(run)

====
